---- MODULE Spec2Model ----
(***************************************************************************)
(* Paystack -> Shopify webhook receiver.                                   *)
(*                                                                         *)
(* The repository holds four variants of one request handler:              *)
(*   "bare"     src/unnamed/part_000        email, no signature check      *)
(*   "verified" src/api/webhook.js 3-216    signature, re-verify, email    *)
(*   "order"    src/api/webhook.js 220-353  signature, re-verify, orders   *)
(*   "dual"     src/api/webhook.js 358-710  signature, re-verify, 2 emails *)
(*                                                                         *)
(* A request is handled in steps separated by the handler's awaits.  An    *)
(* outbound call is appended to calls[r] when it is issued; the reply the  *)
(* external service gives is chosen when the await returns and appended to *)
(* replies[r].  res[r] is the sequence of responses sent, log[r] the       *)
(* console.error lines written, gates[r] the checks the handler evaluated. *)
(***************************************************************************)
EXTENDS Integers, Sequences, FiniteSets, TLC

VARIABLES req, pc, calls, replies, res, log, gates

vars == <<req, pc, calls, replies, res, log, gates>>

----------------------------------------------------------------------------
(* Bounds *)

\* number of custom fields in metadata.custom_fields
MaxFields == 2
\* number of insignificant whitespace bytes in front of the JSON text
MaxPad == 1
\* number of requests the runtime handles concurrently
NumReq == 2

----------------------------------------------------------------------------
(* Input domains *)

Requests == {1}

Variants == {"bare", "verified", "order", "dual"}
Methods == {"POST", "GET"}
EventTypes == {"charge.success", "charge.failed"}
Amounts == {400000, 500000}
References == {"T1"}
FieldNames == {"variant_id", "product_title", "state"}
FieldValues == {"", "987", "654"}
WsBytes == {" ", "\n"}

\* process.env.PAYSTACK_SECRET_KEY
PAYSTACK_SECRET_KEY == "sk_A"
\* keys a sender may sign with
Keys == {"sk_A", "sk_B"}

NoReq == [variant |-> "none"]
\* req.headers['x-paystack-signature'] when the header is absent
NoHeader == [absent |-> TRUE]

SeqsUpTo(S, n) == UNION {[1..k -> S] : k \in 0..n}

Fields == [variable_name : FieldNames, value : FieldValues]

\* event.data.metadata when it is an object: without a custom_fields key, or
\* with a custom_fields array
MetadataObjects ==
  {[none |-> TRUE]} \cup [custom_fields : SeqsUpTo(Fields, MaxFields)]
hasCustomFields(metadata) == "custom_fields" \in DOMAIN metadata

\* event.data.metadata when data has no such key, or it is null
NoMetadata == [undefined |-> TRUE]

\* metadata is an object: metadata.custom_fields does not raise
hasMetadata(metadata) == metadata # NoMetadata

\* event.data.metadata
Metadatas == MetadataObjects \cup {NoMetadata}

\* the parsed body (req.body)
Bodies ==
  [event : EventTypes,
   data : [reference : References, amount : Amounts,
           customer : [email : {"c@x"}],
           metadata : Metadatas]]

\* The bytes received: ws insignificant whitespace bytes followed by the
\* compact JSON text of json.
RawBodies == [ws : SeqsUpTo(WsBytes, MaxPad), json : Bodies]

----------------------------------------------------------------------------
(* Serialisation and signature *)

\* JSON.parse of the received bytes (done by the runtime): whitespace dropped
Parse(raw) == raw.json

\* JSON.stringify(req.body): compact text, no insignificant whitespace
Stringify(body) == [ws |-> <<>>, json |-> body]

\* crypto.createHmac('sha512', key).update(bytes).digest('hex'),
\* idealised as collision free
Hmac(key, bytes) == [key |-> key, bytes |-> bytes]

\* the hash the handlers compute
computedHash(r) == Hmac(PAYSTACK_SECRET_KEY, Stringify(Parse(req[r].raw)))

\* the reference check: HMAC over the bytes as received
referenceHash(r) == Hmac(PAYSTACK_SECRET_KEY, req[r].raw)

\* the raw bodies of the same length that differ from raw in exactly one
\* byte: one whitespace byte replaced, or the leading digit of the amount
OneByteMutations(raw) ==
  {[raw EXCEPT !.ws[i] = w] :
     <<i, w>> \in {p \in (1..Len(raw.ws)) \X WsBytes : raw.ws[p[1]] # p[2]}}
    \cup {[raw EXCEPT !.json.data.amount = a] :
            a \in Amounts \ {raw.json.data.amount}}

\* signature headers a sender may supply for the body raw
Headers(raw) ==
  {NoHeader}
    \cup {Hmac(k, raw) : k \in Keys}
    \cup {Hmac(PAYSTACK_SECRET_KEY, Stringify(Parse(raw)))}
    \cup {Hmac(PAYSTACK_SECRET_KEY, b) : b \in OneByteMutations(raw)}

----------------------------------------------------------------------------
(* Metadata field extraction *)

\* last match wins: index of the last field with that name, 0 if none
Find_Last(fields, name) ==
  IF \E i \in 1..Len(fields) : fields[i].variable_name = name
  THEN CHOOSE i \in 1..Len(fields) :
         /\ fields[i].variable_name = name
         /\ \A j \in (i + 1)..Len(fields) : fields[j].variable_name # name
  ELSE 0

\* Array.prototype.find: index of the first field with that name, 0 if none
Find(fields, name) ==
  IF \E i \in 1..Len(fields) : fields[i].variable_name = name
  THEN CHOOSE i \in 1..Len(fields) :
         /\ fields[i].variable_name = name
         /\ \A j \in 1..(i - 1) : fields[j].variable_name # name
  ELSE 0

\* metadata.custom_fields?.find(f => f.variable_name === name)?.value || dflt
GetField(metadata, name, dflt) ==
  IF ~hasCustomFields(metadata) THEN dflt
  ELSE LET i == Find(metadata.custom_fields, name) IN
       IF i = 0 THEN dflt
       ELSE IF metadata.custom_fields[i].value = "" THEN dflt
       ELSE metadata.custom_fields[i].value

\* the notify handlers' lookup-with-default in place of the null test
orderVariantId_Default(custom_fields) ==
  LET i == Find(custom_fields, "variant_id") IN
  IF i = 0 THEN "N/A"
  ELSE IF custom_fields[i].value = "" THEN "N/A" ELSE custom_fields[i].value

\* order handler: variantIdField ? variantIdField.value : null
\* (only evaluated when custom_fields is an array)
orderVariantId(custom_fields) ==
  LET i == Find(custom_fields, "variant_id") IN
  IF i = 0 THEN "" ELSE custom_fields[i].value

\* the fields the bare handler puts in its email
bareFields(body) ==
  LET cf == body.data.metadata IN
  [productTitle |-> GetField(cf, "product_title", "Unknown Product"),
   variantId |-> GetField(cf, "variant_id", "N/A")]

\* the fields the verified handler puts in its email
verifiedFields(body) ==
  LET cf == body.data.metadata IN
  [productTitle |-> GetField(cf, "product_title", "Unknown Product"),
   variantId |-> GetField(cf, "variant_id", "N/A"),
   customerName |-> GetField(cf, "customer_name", "N/A"),
   phone |-> GetField(cf, "phone", "N/A"),
   shippingZone |-> GetField(cf, "shipping_zone", "N/A"),
   address |-> GetField(cf, "address", "N/A"),
   shippingFee |-> GetField(cf, "shipping_fee", "0")]

\* the fields the dual handler extracts and puts in the admin mail
dualFields(body) ==
  LET cf == body.data.metadata IN
  [productTitle |-> GetField(cf, "product_title", "Unknown Product"),
   variantId |-> GetField(cf, "variant_id", "N/A"),
   customerName |-> GetField(cf, "customer_name", "N/A"),
   phone |-> GetField(cf, "phone", "N/A"),
   shippingZone |-> GetField(cf, "shipping_zone", GetField(cf, "state", "N/A")),
   address |-> GetField(cf, "address", "N/A"),
   shippingFee |-> GetField(cf, "shipping_fee", "0")]

\* the fields the dual handler interpolates in the customer mail: those of
\* the admin mail except the variant id
dualCustomerFields(body) ==
  LET f == dualFields(body) IN
  [productTitle |-> f.productTitle,
   customerName |-> f.customerName,
   phone |-> f.phone,
   shippingZone |-> f.shippingZone,
   address |-> f.address,
   shippingFee |-> f.shippingFee]

----------------------------------------------------------------------------
(* Replies of the external services *)

\* await fetch of /transaction/verify: the promise rejects, or resolves with
\* a Response whose body is not yet decoded
VerifyFetchReplies == {[out |-> "fetch_throws"], [out |-> "response"]}

\* await verifyResponse.json(): the decoding rejects, or yields a document
VerifyReplies ==
  {[out |-> "json_throws"]}
    \cup [out : {"json"}, status : BOOLEAN]
    \cup [out : {"json"}, status : BOOLEAN,
          data : [status : {"success", "failed"}, amount : Amounts]]

\* fetch of the Resend API: rejects, or resolves with response.ok
FetchEmailReplies == {[out |-> "throws"], [out |-> "ok"], [out |-> "not_ok"]}

\* transporter.sendMail: rejects or resolves
SendMailReplies == {[out |-> "throws"], [out |-> "ok"]}

\* await fetch of draftOrderCreate: the promise rejects, or resolves with a
\* Response whose body is not yet decoded
CreateFetchReplies == {[out |-> "throws"], [out |-> "response"]}

\* await shopifyResponse.json(): the decoding rejects (the body is not JSON),
\* the document carries errors, carries no draft order (userErrors), or
\* carries a draft order id
CreateReplies ==
  {[out |-> "json_throws"], [out |-> "errors"], [out |-> "no_draft"],
   [out |-> "draft", id |-> "D1"]}

\* draftOrderComplete: the fetch rejects, or resolves with a response that
\* the handler never reads (2xx, non-2xx, or a document with errors)
CompleteReplies ==
  {[out |-> "throws"], [out |-> "ok"], [out |-> "not_ok"], [out |-> "errors"]}

----------------------------------------------------------------------------
(* Checks shared by the handlers *)

\* the method test inverted
methodNotAllowed_Inverted(method) == method = "POST"

\* req.method !== 'POST'
methodNotAllowed(method) == method # "POST"

\* hash !== req.headers['x-paystack-signature']
signatureMismatch(r) == computedHash(r) # req[r].header

\* the event-type test dropped
isChargeSuccess_Always(body) == TRUE

\* event.event === 'charge.success'
isChargeSuccess(body) == body.event = "charge.success"

\* the verification document carries a data object
hasData(v) == "data" \in DOMAIN v

----------------------------------------------------------------------------
(* State changes *)

\* res.status(st).json(body): the handler returns
Respond(r, st, body, lines, gs) ==
  /\ res' = [res EXCEPT ![r] = Append(@, [status |-> st, body |-> body])]
  /\ log' = [log EXCEPT ![r] = @ \o lines]
  /\ gates' = [gates EXCEPT ![r] = @ \cup gs]
  /\ pc' = [pc EXCEPT ![r] = "done"]
  /\ UNCHANGED calls

\* the error is logged but no response is sent
Catch_NoResponse(r, msg, lines, gs) ==
  /\ log' = [log EXCEPT ![r] =
               @ \o lines \o <<[line |-> "Webhook error", error |-> msg]>>]
  /\ gates' = [gates EXCEPT ![r] = @ \cup gs]
  /\ pc' = [pc EXCEPT ![r] = "done"]
  /\ UNCHANGED <<res, calls>>

\* the top-level catch: console.error('Webhook error:', error), then 500
Catch(r, msg, lines, gs) ==
  Respond(r, 500, [error |-> msg],
          lines \o <<[line |-> "Webhook error", error |-> msg]>>, gs)

\* an outbound call is issued and awaited
Await(r, call, next, lines, gs) ==
  /\ calls' = [calls EXCEPT ![r] = Append(@, call)]
  /\ log' = [log EXCEPT ![r] = @ \o lines]
  /\ gates' = [gates EXCEPT ![r] = @ \cup gs]
  /\ pc' = [pc EXCEPT ![r] = next]
  /\ UNCHANGED res

\* the awaited call returns with reply
Reply(r, reply) == replies' = [replies EXCEPT ![r] = Append(@, reply)]

\* the handler resumes with the Response, calls response.json() and
\* suspends on it: nothing is issued, sent or logged
Suspend(r, next) ==
  /\ pc' = [pc EXCEPT ![r] = next]
  /\ UNCHANGED <<calls, res, log, gates>>

\* the awaited response.json() settles: the reply of the call is now the
\* decoded document (or the rejection of the decoding)
Decoded(r, doc) ==
  replies' = [replies EXCEPT ![r] = [@ EXCEPT ![Len(@)] = doc]]

\* error.message of the SyntaxError response.json() rejects with
JsonErrorMessage == "Unexpected token"

Line(text) == [line |-> text]

MethodNotAllowedBody == [error |-> "Method not allowed"]
InvalidSignatureBody == [error |-> "Invalid signature"]
NotVerifiedBody == [error |-> "Payment not verified"]
AmountMismatchBody == [error |-> "Amount mismatch"]
ReceivedBody == [received |-> TRUE]
SuccessBody(reference) == [success |-> TRUE, reference |-> reference]

Init ==
  /\ req = [r \in Requests |-> NoReq]
  /\ pc = [r \in Requests |-> "idle"]
  /\ calls = [r \in Requests |-> <<>>]
  /\ replies = [r \in Requests |-> <<>>]
  /\ res = [r \in Requests |-> <<>>]
  /\ log = [r \in Requests |-> <<>>]
  /\ gates = [r \in Requests |-> {}]

\* the runtime invokes a handler with a request
Receive(r) ==
  /\ pc[r] = "idle"
  /\ \E v \in Variants, m \in Methods, raw \in RawBodies :
       \E h \in Headers(raw) :
         req' = [req EXCEPT ![r] =
                   [variant |-> v, method |-> m, raw |-> raw,
                    body |-> Parse(raw), header |-> h]]
  /\ pc' = [pc EXCEPT ![r] = "received"]
  /\ UNCHANGED <<calls, replies, res, log, gates>>

----------------------------------------------------------------------------
(* Bare notify handler *)

\* a second delivery of a reference already being handled is acknowledged
\* without a send (a de-duplication store shared by the invocations)
BareEntry_Dedup(r) ==
  /\ pc[r] = "received"
  /\ req[r].variant = "bare"
  /\ LET body == req[r].body IN
     IF methodNotAllowed(req[r].method)
     THEN Respond(r, 405, MethodNotAllowedBody, <<>>, {"method"})
     ELSE IF ~isChargeSuccess(body)
     THEN Respond(r, 200, ReceivedBody, <<>>, {"method", "event"})
     ELSE IF \E q \in DOMAIN calls \ {r} :
               \E i \in 1..Len(calls[q]) :
                 /\ calls[q][i].kind = "email"
                 /\ calls[q][i].reference = body.data.reference
     THEN Respond(r, 200, ReceivedBody, <<>>, {"method", "event"})
     ELSE IF ~hasMetadata(body.data.metadata)
     THEN Catch(r, "TypeError", <<>>, {"method", "event", "extract"})
     ELSE Await(r, [kind |-> "email", to |-> "NOTIFICATION_EMAIL",
                    reference |-> body.data.reference,
                    fields |-> bareFields(body)],
                "bare_email", <<>>, {"method", "event", "extract"})
  /\ UNCHANGED <<req, replies>>

BareEntry(r) ==
  /\ pc[r] = "received"
  /\ req[r].variant = "bare"
  /\ LET body == req[r].body IN
     IF methodNotAllowed(req[r].method)
     THEN Respond(r, 405, MethodNotAllowedBody, <<>>, {"method"})
     ELSE IF ~isChargeSuccess(body)
     THEN Respond(r, 200, ReceivedBody, <<>>, {"method", "event"})
     ELSE IF ~hasMetadata(body.data.metadata)
     THEN Catch(r, "TypeError", <<>>, {"method", "event", "extract"})
     ELSE Await(r, [kind |-> "email", to |-> "NOTIFICATION_EMAIL",
                    reference |-> body.data.reference,
                    fields |-> bareFields(body)],
                "bare_email", <<>>, {"method", "event", "extract"})
  /\ UNCHANGED <<req, replies>>

BareEmailReturns(r) ==
  /\ pc[r] = "bare_email"
  /\ \E reply \in FetchEmailReplies :
       /\ Reply(r, reply)
       /\ IF reply.out = "throws"
          THEN Catch(r, "fetch failed", <<>>, {})
          ELSE IF reply.out = "not_ok"
          THEN Catch(r, "Failed to send email", <<>>, {})
          ELSE Respond(r, 200, SuccessBody(req[r].body.data.reference), <<>>, {})
  /\ UNCHANGED req

----------------------------------------------------------------------------
(* Verified notify handler *)

VerifiedEntry(r) ==
  /\ pc[r] = "received"
  /\ req[r].variant = "verified"
  /\ LET body == req[r].body IN
     IF methodNotAllowed(req[r].method)
     THEN Respond(r, 405, MethodNotAllowedBody, <<>>, {"method"})
     ELSE IF signatureMismatch(r)
     THEN Respond(r, 401, InvalidSignatureBody,
                  <<Line("Invalid webhook signature")>>, {"method", "signature"})
     ELSE IF ~isChargeSuccess(body)
     THEN Respond(r, 200, ReceivedBody, <<>>, {"method", "signature", "event"})
     ELSE Await(r, [kind |-> "verify", reference |-> body.data.reference],
                "verified_verify", <<>>, {"method", "signature", "event"})
  /\ UNCHANGED <<req, replies>>

\* await fetch(verify) settles: a rejection goes to the catch, a Response
\* is handed to response.json(), on which the handler suspends again
VerifiedVerifyReturns(r) ==
  /\ pc[r] = "verified_verify"
  /\ \E f \in VerifyFetchReplies :
       /\ Reply(r, f)
       /\ IF f.out = "fetch_throws"
          THEN Catch(r, "fetch failed", <<>>, {})
          ELSE Suspend(r, "verified_verify_json")
  /\ UNCHANGED req

\* await verifyResponse.json() settles
VerifiedVerifyJsonReturns(r) ==
  /\ pc[r] = "verified_verify_json"
  /\ \E v \in VerifyReplies :
       LET body == req[r].body IN
       /\ Decoded(r, v)
       /\ IF v.out = "json_throws"
          THEN Catch(r, JsonErrorMessage, <<>>, {})
          ELSE IF ~v.status
          THEN Respond(r, 400, NotVerifiedBody,
                       <<Line("Payment verification failed")>>, {"verify"})
          ELSE IF ~hasData(v)
          THEN Catch(r, "TypeError", <<>>, {"verify"})
          ELSE IF v.data.status # "success"
          THEN Respond(r, 400, NotVerifiedBody,
                       <<Line("Payment verification failed")>>, {"verify"})
          ELSE IF v.data.amount # body.data.amount
          THEN Respond(r, 400, AmountMismatchBody,
                       <<Line("Amount mismatch")>>, {"verify", "amount"})
          ELSE IF ~hasMetadata(body.data.metadata)
          THEN Catch(r, "TypeError", <<>>, {"verify", "amount", "extract"})
          ELSE Await(r, [kind |-> "email", to |-> "NOTIFICATION_EMAIL",
                         reference |-> body.data.reference,
                         fields |-> verifiedFields(body)],
                     "verified_email", <<>>, {"verify", "amount", "extract"})
  /\ UNCHANGED req

\* a failed email send is retried once before giving up
VerifiedEmailReturns_Retry(r) ==
  /\ pc[r] = "verified_email"
  /\ \E reply \in FetchEmailReplies :
       /\ Reply(r, reply)
       /\ IF reply.out = "ok"
          THEN Respond(r, 200, SuccessBody(req[r].body.data.reference), <<>>, {})
          ELSE IF Len(calls[r]) < 3
          THEN Await(r, calls[r][Len(calls[r])], "verified_email", <<>>, {})
          ELSE Catch(r, "Failed to send email", <<>>, {})
  /\ UNCHANGED req

VerifiedEmailReturns(r) ==
  /\ pc[r] = "verified_email"
  /\ \E reply \in FetchEmailReplies :
       /\ Reply(r, reply)
       /\ IF reply.out = "throws"
          THEN Catch(r, "fetch failed", <<>>, {})
          ELSE IF reply.out = "not_ok"
          THEN Catch(r, "Failed to send email", <<>>, {})
          ELSE Respond(r, 200, SuccessBody(req[r].body.data.reference), <<>>, {})
  /\ UNCHANGED req

----------------------------------------------------------------------------
(* Order-create handler *)

OrderEntry(r) ==
  /\ pc[r] = "received"
  /\ req[r].variant = "order"
  /\ LET body == req[r].body IN
     IF methodNotAllowed(req[r].method)
     THEN Respond(r, 405, MethodNotAllowedBody, <<>>, {"method"})
     ELSE IF signatureMismatch(r)
     THEN Respond(r, 400, InvalidSignatureBody, <<>>, {"method", "signature"})
     ELSE IF ~isChargeSuccess(body)
     THEN Respond(r, 200, ReceivedBody, <<>>, {"method", "signature", "event"})
     ELSE Await(r, [kind |-> "verify", reference |-> body.data.reference],
                "order_verify", <<>>, {"method", "signature", "event"})
  /\ UNCHANGED <<req, replies>>

\* await fetch(verify) settles: a rejection goes to the catch, a Response
\* is handed to response.json(), on which the handler suspends again
OrderVerifyReturns(r) ==
  /\ pc[r] = "order_verify"
  /\ \E f \in VerifyFetchReplies :
       /\ Reply(r, f)
       /\ IF f.out = "fetch_throws"
          THEN Catch(r, "fetch failed", <<>>, {})
          ELSE Suspend(r, "order_verify_json")
  /\ UNCHANGED req

\* await verifyResponse.json() settles
OrderVerifyJsonReturns(r) ==
  /\ pc[r] = "order_verify_json"
  /\ \E v \in VerifyReplies :
       LET body == req[r].body
           metadata == body.data.metadata
       IN
       /\ Decoded(r, v)
       /\ IF v.out = "json_throws"
          THEN Catch(r, JsonErrorMessage, <<>>, {})
          ELSE IF ~hasData(v)
          THEN Catch(r, "TypeError", <<>>, {"verify"})
          ELSE IF v.data.status # "success"
          THEN Respond(r, 200, ReceivedBody, <<>>, {"verify"})
          ELSE IF ~hasCustomFields(metadata)
          THEN Catch(r, "TypeError", <<>>, {"verify", "extract"})
          ELSE IF orderVariantId(metadata.custom_fields) = ""
          THEN Catch(r, "Variant ID not found in metadata", <<>>,
                     {"verify", "extract"})
          ELSE Await(r, [kind |-> "draftOrderCreate",
                         email |-> body.data.customer.email,
                         reference |-> body.data.reference,
                         variantId |-> orderVariantId(metadata.custom_fields)],
                     "order_create", <<>>, {"verify", "extract"})
  /\ UNCHANGED req

\* await fetch(draftOrderCreate) settles: a rejection goes to the catch, a
\* Response is handed to response.json(), on which the handler suspends again
OrderCreateReturns(r) ==
  /\ pc[r] = "order_create"
  /\ \E f \in CreateFetchReplies :
       /\ Reply(r, f)
       /\ IF f.out = "throws"
          THEN Catch(r, "fetch failed", <<>>, {})
          ELSE Suspend(r, "order_create_json")
  /\ UNCHANGED req

\* the decoded create document is not examined before the complete call is
\* issued
OrderCreateJsonReturns_Unchecked(r) ==
  /\ pc[r] = "order_create_json"
  /\ \E reply \in CreateReplies :
       /\ Decoded(r, reply)
       /\ IF reply.out = "json_throws"
          THEN Catch(r, JsonErrorMessage, <<>>, {})
          ELSE Await(r, [kind |-> "draftOrderComplete",
                         id |-> IF reply.out = "draft" THEN reply.id
                                ELSE "undefined"],
                     "order_complete", <<>>, {})
  /\ UNCHANGED req

\* await shopifyResponse.json() settles
OrderCreateJsonReturns(r) ==
  /\ pc[r] = "order_create_json"
  /\ \E reply \in CreateReplies :
       /\ Decoded(r, reply)
       /\ IF reply.out = "json_throws"
          THEN Catch(r, JsonErrorMessage, <<>>, {})
          ELSE IF reply.out = "errors"
          THEN Catch(r, "Shopify API error", <<>>, {})
          ELSE IF reply.out = "no_draft"
          THEN Catch(r, "TypeError", <<>>, {})
          ELSE Await(r, [kind |-> "draftOrderComplete", id |-> reply.id],
                     "order_complete", <<>>, {})
  /\ UNCHANGED req

OrderCompleteReturns(r) ==
  /\ pc[r] = "order_complete"
  /\ \E reply \in CompleteReplies :
       /\ Reply(r, reply)
       /\ IF reply.out = "throws"
          THEN Catch(r, "fetch failed", <<>>, {})
          ELSE Respond(r, 200, SuccessBody(req[r].body.data.reference), <<>>, {})
  /\ UNCHANGED req

----------------------------------------------------------------------------
(* Dual-email handler *)

DualEntry(r) ==
  /\ pc[r] = "received"
  /\ req[r].variant = "dual"
  /\ LET body == req[r].body IN
     IF methodNotAllowed(req[r].method)
     THEN Respond(r, 405, MethodNotAllowedBody, <<>>, {"method"})
     ELSE IF signatureMismatch(r)
     THEN Respond(r, 401, InvalidSignatureBody,
                  <<Line("Invalid webhook signature")>>, {"method", "signature"})
     ELSE IF ~isChargeSuccess(body)
     THEN Respond(r, 200, ReceivedBody, <<>>, {"method", "signature", "event"})
     ELSE Await(r, [kind |-> "verify", reference |-> body.data.reference],
                "dual_verify", <<>>, {"method", "signature", "event"})
  /\ UNCHANGED <<req, replies>>

\* await fetch(verify) settles: a rejection goes to the catch, a Response
\* is handed to response.json(), on which the handler suspends again
DualVerifyReturns(r) ==
  /\ pc[r] = "dual_verify"
  /\ \E f \in VerifyFetchReplies :
       /\ Reply(r, f)
       /\ IF f.out = "fetch_throws"
          THEN Catch(r, "fetch failed", <<>>, {})
          ELSE Suspend(r, "dual_verify_json")
  /\ UNCHANGED req

\* await verifyResponse.json() settles
DualVerifyJsonReturns(r) ==
  /\ pc[r] = "dual_verify_json"
  /\ \E v \in VerifyReplies :
       LET body == req[r].body IN
       /\ Decoded(r, v)
       /\ IF v.out = "json_throws"
          THEN Catch(r, JsonErrorMessage, <<>>, {})
          ELSE IF ~v.status
          THEN Respond(r, 400, NotVerifiedBody,
                       <<Line("Payment verification failed")>>, {"verify"})
          ELSE IF ~hasData(v)
          THEN Catch(r, "TypeError", <<>>, {"verify"})
          ELSE IF v.data.status # "success"
          THEN Respond(r, 400, NotVerifiedBody,
                       <<Line("Payment verification failed")>>, {"verify"})
          ELSE IF v.data.amount # body.data.amount
          THEN Respond(r, 400, AmountMismatchBody,
                       <<Line("Amount mismatch")>>, {"verify", "amount"})
          ELSE IF ~hasMetadata(body.data.metadata)
          THEN Catch(r, "TypeError", <<>>, {"verify", "amount", "extract"})
          ELSE Await(r, [kind |-> "email", to |-> "support@jegolden.com",
                         reference |-> body.data.reference,
                         fields |-> dualFields(body)],
                     "dual_admin", <<>>, {"verify", "amount", "extract"})
  /\ UNCHANGED req

\* the admin send without its own try/catch
DualAdminReturns_Uncaught(r) ==
  /\ pc[r] = "dual_admin"
  /\ \E reply \in SendMailReplies :
       LET body == req[r].body IN
       /\ Reply(r, reply)
       /\ IF reply.out = "throws"
          THEN Catch(r, "sendMail failed", <<>>, {})
          ELSE Await(r, [kind |-> "email", to |-> body.data.customer.email,
                         reference |-> body.data.reference,
                         fields |-> dualCustomerFields(body)],
                     "dual_customer", <<>>, {})
  /\ UNCHANGED req

DualAdminReturns(r) ==
  /\ pc[r] = "dual_admin"
  /\ \E reply \in SendMailReplies :
       LET body == req[r].body IN
       /\ Reply(r, reply)
       /\ Await(r, [kind |-> "email", to |-> body.data.customer.email,
                    reference |-> body.data.reference,
                    fields |-> dualCustomerFields(body)],
                "dual_customer",
                IF reply.out = "throws"
                THEN <<Line("Failed to send admin email")>> ELSE <<>>,
                {})
  /\ UNCHANGED req

DualCustomerReturns(r) ==
  /\ pc[r] = "dual_customer"
  /\ \E reply \in SendMailReplies :
       /\ Reply(r, reply)
       /\ Respond(r, 200, SuccessBody(req[r].body.data.reference),
                  IF reply.out = "throws"
                  THEN <<Line("Failed to send customer email")>> ELSE <<>>,
                  {})
  /\ UNCHANGED req

----------------------------------------------------------------------------

Step(r) ==
  \/ Receive(r)
  \/ BareEntry(r)
  \/ BareEmailReturns(r)
  \/ VerifiedEntry(r)
  \/ VerifiedVerifyReturns(r)
  \/ VerifiedVerifyJsonReturns(r)
  \/ VerifiedEmailReturns(r)
  \/ OrderEntry(r)
  \/ OrderVerifyReturns(r)
  \/ OrderVerifyJsonReturns(r)
  \/ OrderCreateReturns(r)
  \/ OrderCreateJsonReturns(r)
  \/ OrderCompleteReturns(r)
  \/ DualEntry(r)
  \/ DualVerifyReturns(r)
  \/ DualVerifyJsonReturns(r)
  \/ DualAdminReturns(r)
  \/ DualCustomerReturns(r)

Next == \E r \in Requests : Step(r)

Spec == Init /\ [][Next]_vars

----------------------------------------------------------------------------
(* Observations used by the properties *)

Done(r) == pc[r] = "done"
Status(r) == res[r][Len(res[r])].status
ResBody(r) == res[r][Len(res[r])].body
CallKinds(r) == {calls[r][i].kind : i \in 1..Len(calls[r])}
Checks(r) == req[r].variant # "bare"
Reverifies(r) == req[r].variant \in {"verified", "order", "dual"}

TypeOK ==
  /\ \A r \in Requests : Len(res[r]) <= 1
  /\ \A r \in Requests : Len(replies[r]) <= Len(calls[r])

----------------------------------------------------------------------------
(* Vocabulary of the properties *)

\* the handler was entered and has run its synchronous prefix
Entered(r) == pc[r] \notin {"idle", "received"}

IsPost(r) == req[r].method = "POST"

\* the request went past the signature gate of a handler that has one
Authenticated(r) == {"signature", "event"} \subseteq gates[r]

\* the reply to the processor verify call, when it has returned
HasVerifyReply(r) ==
  /\ Len(replies[r]) >= 1
  /\ calls[r][1].kind = "verify"
VerifyReply(r) == replies[r][1]

\* an email send or an order call was issued
Downstream(r) ==
  CallKinds(r) \cap {"email", "draftOrderCreate", "draftOrderComplete"} # {}

\* the processor reports success and the claimed amount
ProcessorVerified(r) ==
  /\ HasVerifyReply(r)
  /\ VerifyReply(r).out = "json"
  /\ VerifyReply(r).status
  /\ hasData(VerifyReply(r))
  /\ VerifyReply(r).data.status = "success"
  /\ VerifyReply(r).data.amount = req[r].body.data.amount

\* no field named variant_id, or the first one carries an empty value
NoUsableVariantId(metadata) ==
  \/ ~hasCustomFields(metadata)
  \/ LET cf == metadata.custom_fields IN
     ~\E i \in 1..Len(cf) :
        /\ cf[i].variable_name = "variant_id"
        /\ cf[i].value # ""
        /\ \A j \in 1..(i - 1) : cf[j].variable_name # "variant_id"

\* some awaited call of the request raised
SomeCallRaised(r) ==
  \E i \in 1..Len(replies[r]) :
    replies[r][i].out \in {"throws", "fetch_throws", "json_throws"}

\* some email send of the request failed (raised or answered non-2xx)
SomeEmailFailed(r) ==
  \E i \in 1..Len(replies[r]) :
    /\ calls[r][i].kind = "email"
    /\ replies[r][i].out \in {"throws", "not_ok"}

----------------------------------------------------------------------------
(* Claims *)

\* C1: in every handler variant a POST request whose signature header is not
\* the HMAC under the shared secret (neither of the bytes received nor of the
\* re-serialised body) is answered 401 or 400, causes no outbound call, and
\* its event is never interpreted.
C1_BadSignatureRejected ==
  \A r \in Requests :
    (/\ Entered(r)
     /\ IsPost(r)
     /\ req[r].header # referenceHash(r)
     /\ req[r].header # computedHash(r))
    => /\ Done(r)
       /\ Status(r) \in {400, 401}
       /\ calls[r] = <<>>
       /\ "event" \notin gates[r]

\* C2: in the handlers with a signature gate, a POST request is authenticated
\* exactly when its signature header equals the HMAC, under the shared
\* secret, of the raw bytes as received.
C2_VerdictOverRawBytes ==
  \A r \in Requests :
    (Entered(r) /\ Checks(r) /\ IsPost(r))
    => (Authenticated(r) <=> req[r].header = referenceHash(r))

\* C3: in every handler that re-verifies, an authenticated charge.success
\* event whose verification response has top-level status false or
\* data.status other than "success" ends in 400 with no email send and no
\* order call.
C3_NotSuccessRejected ==
  \A r \in Requests :
    (/\ Done(r)
     /\ Reverifies(r)
     /\ HasVerifyReply(r)
     /\ VerifyReply(r).out = "json"
     /\ \/ ~VerifyReply(r).status
        \/ hasData(VerifyReply(r)) /\ VerifyReply(r).data.status # "success")
    => Status(r) = 400 /\ ~Downstream(r)

\* C4: in every handler that re-verifies, an authenticated charge.success
\* event for which the processor reports success but another amount than the
\* one claimed ends in 400 with no email send and no draft order call.
C4_AmountMismatchRejected ==
  \A r \in Requests :
    (/\ Done(r)
     /\ Reverifies(r)
     /\ HasVerifyReply(r)
     /\ VerifyReply(r).out = "json"
     /\ VerifyReply(r).status
     /\ hasData(VerifyReply(r))
     /\ VerifyReply(r).data.status = "success"
     /\ VerifyReply(r).data.amount # req[r].body.data.amount)
    => Status(r) = 400 /\ ~Downstream(r)

\* C5: a POST request that passes the signature gate (where there is one)
\* and whose event type is not charge.success is answered 200
\* {received:true} at once and makes no outbound call.
C5_OtherEventsAcknowledged ==
  \A r \in Requests :
    (/\ Entered(r)
     /\ IsPost(r)
     /\ Checks(r) => req[r].header = computedHash(r)
     /\ req[r].body.event # "charge.success")
    => /\ Done(r)
       /\ res[r] = <<[status |-> 200, body |-> ReceivedBody]>>
       /\ calls[r] = <<>>

C5_Witness ==
  \E r \in Requests :
    /\ Done(r)
    /\ Checks(r)
    /\ IsPost(r)
    /\ req[r].header = computedHash(r)
    /\ req[r].body.event = "charge.failed"
    /\ ResBody(r) = ReceivedBody

\* C6: in every handler variant a request whose method is not POST is
\* answered 405 at once: only the method is tested, nothing is logged and no
\* outbound call is made.
C6_MethodNotAllowed ==
  \A r \in Requests :
    (Entered(r) /\ ~IsPost(r))
    => /\ Done(r)
       /\ res[r] = <<[status |-> 405, body |-> MethodNotAllowedBody]>>
       /\ gates[r] = {"method"}
       /\ calls[r] = <<>>
       /\ log[r] = <<>>

C6_Witness ==
  \E r \in Requests :
    /\ Done(r)
    /\ req[r].method = "GET"
    /\ req[r].variant = "order"
    /\ req[r].header = computedHash(r)
    /\ req[r].body.event = "charge.success"
    /\ Status(r) = 405

\* C7: the order-create handler answers 200 {success:true, reference} only
\* if the draft-order create call yielded a draft order and the complete
\* call succeeded.
C7_SuccessOnlyIfBothSucceeded ==
  \A r \in Requests :
    (/\ Done(r)
     /\ req[r].variant = "order"
     /\ Status(r) = 200
     /\ ResBody(r) = SuccessBody(req[r].body.data.reference))
    => /\ Len(replies[r]) = 3
       /\ replies[r][2].out = "draft"
       /\ replies[r][3].out = "ok"

\* C8: in the notify handlers (single email and dual email), whenever an
\* email send fails the request ends in 500.
C8_EmailFailureIs500 ==
  \A r \in Requests :
    (/\ Done(r)
     /\ req[r].variant \in {"bare", "verified", "dual"}
     /\ SomeEmailFailed(r))
    => Status(r) = 500

\* C9: in the order-create handler an authenticated, processor-verified
\* charge.success event without a usable variant_id ends in 500 as soon as
\* the verification returns, and no commerce order call is ever made.
C9_NoVariantNoOrder ==
  \A r \in Requests :
    (/\ req[r].variant = "order"
     /\ Authenticated(r)
     /\ ProcessorVerified(r)
     /\ NoUsableVariantId(req[r].body.data.metadata))
    => /\ Done(r)
       /\ Status(r) = 500
       /\ CallKinds(r) = {"verify"}

C9_Witness ==
  \E r \in Requests :
    /\ Done(r)
    /\ req[r].variant = "order"
    /\ ProcessorVerified(r)
    /\ hasCustomFields(req[r].body.data.metadata)
    /\ Len(req[r].body.data.metadata.custom_fields) = 2
    /\ NoUsableVariantId(req[r].body.data.metadata)
    /\ ResBody(r) = [error |-> "Variant ID not found in metadata"]

\* C10: in every handler that re-verifies, a verification call that fails in
\* transit ends the request in 500 with no email send and no order call; and
\* any request in which an awaited call raised ends in 500.
C10_ExceptionsEndIn500 ==
  \A r \in Requests :
    /\ (/\ Done(r)
        /\ Reverifies(r)
        /\ HasVerifyReply(r)
        /\ VerifyReply(r).out \in {"fetch_throws", "json_throws"})
       => Status(r) = 500 /\ ~Downstream(r)
    /\ (Done(r) /\ SomeCallRaised(r)) => Status(r) = 500

\* the i-th call of request r is a create call that failed: the fetch or the
\* decoding rejected, or the decoded document carries no draft order
CreateFailed(r, i) ==
  /\ calls[r][i].kind = "draftOrderCreate"
  /\ replies[r][i].out \in {"throws", "json_throws", "errors", "no_draft"}

\* C11: in the order-create handler the complete call is issued only after
\* the create call has returned a draft order, for that draft order's id and
\* as the very next call; when the create call fails (the fetch or the
\* decoding rejects, or the document carries no draft order) no complete call
\* is issued and the request ends in 500.
C11_CompleteOnlyAfterCreate ==
  \A r \in Requests :
    /\ \A i \in 1..Len(calls[r]) :
         calls[r][i].kind = "draftOrderComplete"
         => /\ i > 1
            /\ calls[r][i - 1].kind = "draftOrderCreate"
            /\ replies[r][i - 1].out = "draft"
            /\ calls[r][i].id = replies[r][i - 1].id
    /\ \A i \in 1..Len(replies[r]) :
         CreateFailed(r, i)
         => /\ "draftOrderComplete" \notin CallKinds(r)
            /\ Done(r)
            /\ Status(r) = 500

C11_Witness ==
  \E r \in Requests :
    /\ Done(r)
    /\ Len(calls[r]) = 3
    /\ calls[r][2].kind = "draftOrderCreate"
    /\ replies[r][2].out = "draft"
    /\ calls[r][3] = [kind |-> "draftOrderComplete", id |-> "D1"]

C11_WitnessCreateFails ==
  \E r \in Requests :
    /\ Done(r)
    /\ Len(calls[r]) = 2
    /\ CreateFailed(r, 2)
    /\ replies[r][2].out = "json_throws"

\* the email sends of request r addressed to address
EmailsTo(r, address) ==
  {i \in 1..Len(calls[r]) :
     calls[r][i].kind = "email" /\ calls[r][i].to = address}

\* C12: in the dual-email handler, once the verification has passed the
\* operator send is attempted exactly once, and once the operator send has
\* returned, rejected or not, the customer send is attempted exactly once;
\* a finished request that reached the sends attempted both, whatever the
\* outcome of either.
C12_SendsIndependent ==
  \A r \in Requests :
    (req[r].variant = "dual" /\ Len(calls[r]) >= 2)
    => /\ Cardinality(EmailsTo(r, "support@jegolden.com")) = 1
       /\ Cardinality(EmailsTo(r, req[r].body.data.customer.email)) <= 1
       /\ (Len(replies[r]) >= 2 \/ Done(r))
          => /\ Cardinality(EmailsTo(r, req[r].body.data.customer.email)) = 1
             /\ Len(calls[r]) = 3

C12_Witness ==
  \E r \in Requests :
    /\ Done(r)
    /\ req[r].variant = "dual"
    /\ Len(replies[r]) = 3
    /\ replies[r][2].out = "throws"
    /\ replies[r][3].out = "ok"
    /\ calls[r][3].to = req[r].body.data.customer.email

C12_WitnessCustomerFails ==
  \E r \in Requests :
    /\ Done(r)
    /\ req[r].variant = "dual"
    /\ Len(replies[r]) = 3
    /\ replies[r][2].out = "ok"
    /\ replies[r][3].out = "throws"

\* the handlers that send email
Notifies(r) == req[r].variant \in {"bare", "verified", "dual"}

\* the first email send of a notify request, issued by the step that
\* extracts the fields (when the extraction did not raise)
FirstEmail(r) == calls[r][IF req[r].variant = "bare" THEN 1 ELSE 2]

\* no custom field of that name: no list, an empty list, or no such entry
Absent(metadata, name) ==
  \/ ~hasCustomFields(metadata)
  \/ \A i \in 1..Len(metadata.custom_fields) :
       metadata.custom_fields[i].variable_name # name

\* the documented lookups: <<field name, variable of the handler, default>>
BareLookups ==
  {<<"product_title", "productTitle", "Unknown Product">>,
   <<"variant_id", "variantId", "N/A">>}
VerifiedLookups ==
  BareLookups \cup
    {<<"customer_name", "customerName", "N/A">>,
     <<"phone", "phone", "N/A">>,
     <<"shipping_zone", "shippingZone", "N/A">>,
     <<"address", "address", "N/A">>,
     <<"shipping_fee", "shippingFee", "0">>}
Lookups(variant) == IF variant = "bare" THEN BareLookups ELSE VerifiedLookups

\* the handler has reached field extraction: a POST charge.success event
\* that, in the handlers that re-verify, was authenticated and verified by
\* the processor for the claimed amount
ReachedExtraction(r) ==
  /\ Entered(r)
  /\ Notifies(r)
  /\ IsPost(r)
  /\ isChargeSuccess(req[r].body)
  /\ req[r].variant # "bare" => ProcessorVerified(r)

\* C13: in the notify handlers a charge.success event that reaches field
\* extraction does not raise there (the first email send is issued), and
\* every looked-up name for which no custom field is present - the list
\* missing, empty, or without such an entry - yields its documented default.
C13_ExtractionTotal ==
  \A r \in Requests :
    ReachedExtraction(r)
    => /\ Len(calls[r]) >= (IF req[r].variant = "bare" THEN 1 ELSE 2)
       /\ FirstEmail(r).kind = "email"
       /\ \A l \in Lookups(req[r].variant) :
            Absent(req[r].body.data.metadata, l[1])
            => FirstEmail(r).fields[l[2]] = l[3]

\* i is the position of the first custom field named name
IsFirstNamed(metadata, name, i) ==
  /\ hasCustomFields(metadata)
  /\ i \in 1..Len(metadata.custom_fields)
  /\ metadata.custom_fields[i].variable_name = name
  /\ \A j \in 1..(i - 1) : metadata.custom_fields[j].variable_name # name

CallClass(r, i) ==
  IF calls[r][i].kind = "email"
  THEN <<"email", calls[r][i].to>>
  ELSE <<calls[r][i].kind, "">>

\* C15: within the handling of one request no kind of outbound call
\* (processor verify, operator email, customer email, draft-order create,
\* draft-order complete) is issued twice, whatever the outcome of the first.
C15_NoRetry ==
  \A r \in Requests :
    \A i, j \in 1..Len(calls[r]) :
      i # j => CallClass(r, i) # CallClass(r, j)

C15_Witness ==
  \E r \in Requests :
    /\ Done(r)
    /\ req[r].variant = "verified"
    /\ Len(calls[r]) = 2
    /\ replies[r][2].out = "not_ok"
    /\ Status(r) = 500

C15_WitnessVerifyFails ==
  \E r \in Requests :
    /\ Done(r)
    /\ req[r].variant = "order"
    /\ Len(calls[r]) = 1
    /\ replies[r][1].out = "fetch_throws"
    /\ Status(r) = 500

----------------------------------------------------------------------------
(* Concurrent invocations *)

\* the invocations the runtime may run interleaved
ConcRequests == 1..NumReq

\* the deliveries handled concurrently: one validly signed charge.success
\* event (so a redelivery is the same request again) and a validly signed
\* event of another type, for every handler variant
ConcBodies ==
  {[event |-> e,
    data |-> [reference |-> "T1", amount |-> 500000,
              customer |-> [email |-> "c@x"],
              metadata |-> [custom_fields |->
                 <<[variable_name |-> "variant_id", value |-> "987"]>>]]] :
     e \in EventTypes}

ConcInputs ==
  {[variant |-> v, method |-> "POST", raw |-> Stringify(b), body |-> b,
    header |-> Hmac(PAYSTACK_SECRET_KEY, Stringify(b))] :
     v \in Variants, b \in ConcBodies}

InitConc ==
  /\ req = [r \in ConcRequests |-> NoReq]
  /\ pc = [r \in ConcRequests |-> "idle"]
  /\ calls = [r \in ConcRequests |-> <<>>]
  /\ replies = [r \in ConcRequests |-> <<>>]
  /\ res = [r \in ConcRequests |-> <<>>]
  /\ log = [r \in ConcRequests |-> <<>>]
  /\ gates = [r \in ConcRequests |-> {}]

\* the runtime invokes a handler while others may be awaiting
ReceiveConc(r) ==
  /\ pc[r] = "idle"
  /\ \E i \in ConcInputs : req' = [req EXCEPT ![r] = i]
  /\ pc' = [pc EXCEPT ![r] = "received"]
  /\ UNCHANGED <<calls, replies, res, log, gates>>

StepConc(r) ==
  \/ ReceiveConc(r)
  \/ BareEntry(r)
  \/ BareEmailReturns(r)
  \/ VerifiedEntry(r)
  \/ VerifiedVerifyReturns(r)
  \/ VerifiedVerifyJsonReturns(r)
  \/ VerifiedEmailReturns(r)
  \/ OrderEntry(r)
  \/ OrderVerifyReturns(r)
  \/ OrderVerifyJsonReturns(r)
  \/ OrderCreateReturns(r)
  \/ OrderCreateJsonReturns(r)
  \/ OrderCompleteReturns(r)
  \/ DualEntry(r)
  \/ DualVerifyReturns(r)
  \/ DualVerifyJsonReturns(r)
  \/ DualAdminReturns(r)
  \/ DualCustomerReturns(r)

NextConc == \E r \in ConcRequests : StepConc(r)

SpecConc == InitConc /\ [][NextConc]_vars

\* C16: under any interleaving of concurrently handled requests, what a
\* request has done so far (its outbound calls, its response, its log, its
\* position) is determined by the request and the replies it was given:
\* two invocations with the same request and the same replies are in the
\* same state whatever ran in between, so a redelivery of the same valid
\* event repeats the downstream action.
C16_Independent ==
  \A r1, r2 \in ConcRequests :
    (/\ Entered(r1)
     /\ Entered(r2)
     /\ req[r1] = req[r2]
     /\ replies[r1] = replies[r2])
    => /\ calls[r1] = calls[r2]
       /\ res[r1] = res[r2]
       /\ log[r1] = log[r2]
       /\ gates[r1] = gates[r2]
       /\ pc[r1] = pc[r2]

\* a redelivered valid event: both deliveries created and completed an order
C16_Witness ==
  /\ req[1] = req[2]
  /\ req[1].variant = "order"
  /\ Done(1) /\ Done(2)
  /\ Len(calls[1]) = 3 /\ Len(calls[2]) = 3
  /\ calls[1][2].kind = "draftOrderCreate"
  /\ calls[2][2].kind = "draftOrderCreate"
  /\ Status(1) = 200 /\ Status(2) = 200

----------------------------------------------------------------------------
(* Progress *)

\* the steps of an invocation once the runtime has called the handler
Handle(r) ==
  \/ BareEntry(r)
  \/ BareEmailReturns(r)
  \/ VerifiedEntry(r)
  \/ VerifiedVerifyReturns(r)
  \/ VerifiedVerifyJsonReturns(r)
  \/ VerifiedEmailReturns(r)
  \/ OrderEntry(r)
  \/ OrderVerifyReturns(r)
  \/ OrderVerifyJsonReturns(r)
  \/ OrderCreateReturns(r)
  \/ OrderCreateJsonReturns(r)
  \/ OrderCompleteReturns(r)
  \/ DualEntry(r)
  \/ DualVerifyReturns(r)
  \/ DualVerifyJsonReturns(r)
  \/ DualAdminReturns(r)
  \/ DualCustomerReturns(r)

\* One request for every combination of the conditions the handlers branch
\* on: variant, method, signature match, event type, and the metadata (absent,
\* no custom_fields, an empty list, a variant_id with a value, one without).
PathMetadatas ==
  {NoMetadata,
   [none |-> TRUE],
   [custom_fields |-> <<>>],
   [custom_fields |-> <<[variable_name |-> "variant_id", value |-> "987"]>>],
   [custom_fields |-> <<[variable_name |-> "variant_id", value |-> ""]>>]}

PathBodies ==
  [event : EventTypes,
   data : [reference : {"T1"}, amount : {500000},
           customer : [email : {"c@x"}],
           metadata : PathMetadatas]]

PathInputs ==
  {[variant |-> v, method |-> m, raw |-> Stringify(b), body |-> b,
    header |-> h] :
     <<v, m, b, h>> \in
       {t \in Variants \X Methods \X PathBodies \X
                ({NoHeader} \cup
                   {Hmac(PAYSTACK_SECRET_KEY, Stringify(b)) : b \in PathBodies}) :
          t[4] \in {NoHeader, Hmac(PAYSTACK_SECRET_KEY, Stringify(t[3]))}}}

\* the runtime invokes a handler
ReceivePath(r) ==
  /\ pc[r] = "idle"
  /\ \E i \in PathInputs : req' = [req EXCEPT ![r] = i]
  /\ pc' = [pc EXCEPT ![r] = "received"]
  /\ UNCHANGED <<calls, replies, res, log, gates>>

NextFair == \E r \in Requests : ReceivePath(r) \/ Handle(r)

\* a called handler runs, and every awaited outbound call eventually
\* returns or raises
SpecFair ==
  /\ Init
  /\ [][NextFair]_vars
  /\ \A r \in Requests : WF_vars(Handle(r))

ResponseStatuses == {200, 400, 401, 405, 500}

\* C17: every handler invocation sends exactly one response: a handler that
\* was called eventually returns, a handler that has returned has sent one
\* response with a status in {200, 400, 401, 405, 500}, no handler ever has
\* sent more than one, and a response once sent is never followed by
\* another.
C17_ExactlyOneResponse ==
  /\ \A r \in Requests : (pc[r] = "received") ~> Done(r)
  /\ [](\A r \in Requests :
          /\ Len(res[r]) <= 1
          /\ Done(r) => /\ Len(res[r]) = 1
                        /\ res[r][1].status \in ResponseStatuses)
  /\ [][\A r \in Requests : Len(res[r]) = 1 => res'[r] = res[r]]_vars

C17_Witness ==
  \E r \in Requests :
    /\ Done(r)
    /\ Len(replies[r]) = 3
    /\ Len(res[r]) = 1
    /\ res[r][1].status = 500

====
